---- MODULE Spec2Model ----
(***************************************************************************)
(* Model of packages/core/tooling/js/kit.ts: addHooksHandle and            *)
(* addGlobalAppInterface, over syntax trees with node identity.            *)
(*                                                                         *)
(* A tree is a record [heap, body]: heap is the sequence of all statement  *)
(* objects ever allocated (the index is the object's identity), body is    *)
(* the Program body as a sequence of identities.  Expressions and          *)
(* declarators are values stored inside their statement object.            *)
(***************************************************************************)
EXTENDS Integers, Sequences, FiniteSets, TLC

VARIABLES
    ast,     \* the hooks Program being merged into
    start,   \* the Program as parsed, before any merge
    pre,     \* the Program before the latest addHooksHandle call
    units,   \* the fragments merged so far, in call order
    threw,   \* whether the latest call threw
    gast,    \* the app.d.ts Program
    gstart,  \* the app.d.ts Program as parsed
    rets     \* the outcome of each addGlobalAppInterface call, in call order

vars == <<ast, start, pre, units, threw, gast, gstart, rets>>


\* ------------------------------------------------------------------ bounds
MaxCalls == 2
MaxGlobalCalls == 2

\* ------------------------------------------------------------ expressions
Ident(n) == [type |-> "Identifier", name |-> n, arguments |-> <<>>, text |-> ""]
Call(callee, args) ==
    [type |-> "CallExpression", name |-> callee, arguments |-> args, text |-> ""]
Arrow(src) ==
    [type |-> "ArrowFunctionExpression", name |-> "", arguments |-> <<>>, text |-> src]

\* ------------------------------------------------------------- statements
Declarator(id, typed, init) == [id |-> id, typed |-> typed, init |-> init]

Base ==
    [type |-> "", id |-> "", declarations |-> <<>>, specifiers |-> <<>>,
     declaration |-> <<>>, source |-> "", imported |-> <<>>, importKind |-> ""]

VarDecl(ds) == [Base EXCEPT !.type = "VariableDeclaration", !.declarations = ds]
FuncDecl(n) == [Base EXCEPT !.type = "FunctionDeclaration", !.id = n]
ClassDecl(n) == [Base EXCEPT !.type = "ClassDeclaration", !.id = n]
Specifier(local, exported) == [local |-> local, exported |-> exported]
ExportSpec(ss) == [Base EXCEPT !.type = "ExportNamedDeclaration", !.specifiers = ss]
ExportDecl(d) == [Base EXCEPT !.type = "ExportNamedDeclaration", !.declaration = <<d>>]
Import(src, names, kind) ==
    [Base EXCEPT !.type = "ImportDeclaration", !.source = src,
                 !.imported = names, !.importKind = kind]

Const(n, e) == VarDecl(<<Declarator(n, FALSE, <<e>>)>>)

\* ------------------------------------------------------------ seq helpers
FirstIdx(s, P(_)) ==
    IF \E i \in 1..Len(s) : P(s[i])
    THEN CHOOSE i \in 1..Len(s) : P(s[i]) /\ \A j \in 1..(i - 1) : ~P(s[j])
    ELSE 0

LastIdx(s, P(_)) ==
    IF \E i \in 1..Len(s) : P(s[i])
    THEN CHOOSE i \in 1..Len(s) : P(s[i]) /\ \A j \in (i + 1)..Len(s) : ~P(s[j])
    ELSE 0

Range(s) == {s[i] : i \in 1..Len(s)}

\* ------------------------------------------------------------------ parse
\* parseScript: source text (here: a nested value tree) to a Program whose
\* statements are objects with identity; an inline declaration is an object
\* of its own, referenced by its export wrapper.
RECURSIVE ParseFrom(_, _, _)
ParseFrom(stmts, i, acc) ==
    IF i > Len(stmts) THEN acc
    ELSE LET s == stmts[i]
         IN IF s.declaration = <<>>
            THEN ParseFrom(stmts, i + 1,
                     [heap |-> Append(acc.heap, s),
                      body |-> Append(acc.body, Len(acc.heap) + 1)])
            ELSE ParseFrom(stmts, i + 1,
                     [heap |-> acc.heap \o
                               <<s.declaration[1],
                                 [s EXCEPT !.declaration = <<Len(acc.heap) + 1>>]>>,
                      body |-> Append(acc.body, Len(acc.heap) + 2)])

parseScript(stmts) == ParseFrom(stmts, 1, [heap |-> <<>>, body |-> <<>>])

\* The tree as the printer sees it: the body with each inline declaration in
\* place of its identity.
RenderNode(heap, u) ==
    [heap[u] EXCEPT !.declaration = [i \in 1..Len(@) |-> heap[@[i]]]]

Render(t) == [i \in 1..Len(t.body) |-> RenderNode(t.heap, t.body[i])]

\* ---------------------------------------------------------- kit.ts helpers
usingSequence(node, handleName) ==
    /\ node.id = handleName
    /\ node.init # <<>>
    /\ node.init[1].type = "CallExpression"
    /\ node.init[1].name = "sequence"

getVariableDeclarator(node, handleName) ==
    FirstIdx(node.declarations, LAMBDA d : d.id = handleName)

isVariableDeclaration(node, variableName) ==
    /\ node.type = "VariableDeclaration"
    /\ getVariableDeclarator(node, variableName) # 0

isFunctionDeclaration(node, funcName) ==
    /\ node.type = "FunctionDeclaration"
    /\ node.id = funcName

\* ---------------------------------------------------------- node builders
\* A new statement object; its identity is Len(t.heap) + 1 before the call.
alloc(t, node) == [t EXCEPT !.heap = Append(@, node)]

push(t, us) == [t EXCEPT !.body = @ \o us]

\* common.expressionFromString: a source that is a bare name parses to an
\* Identifier, any other source of the model to a function expression.
IdentifierSources == {"otherHandle", "c", "d"}
expressionFromString(src) == IF src \in IdentifierSources THEN Ident(src) ELSE Arrow(src)

\* variables.declaration / variables.typeAnnotateDeclarator
declaration(name, value) == VarDecl(<<Declarator(name, FALSE, <<value>>)>>)
typeAnnotateDeclarator(decl) == [decl EXCEPT !.declarations[1].typed = TRUE]

\* functions.callByIdentifier
callByIdentifier(name, args) == Call(name, args)

\* imports.addNamed: one import statement per source, one specifier per name
addNamed(t, importFrom, name, isType) ==
    LET i == LastIdx(t.body, LAMBDA u : t.heap[u].type = "ImportDeclaration"
                                         /\ t.heap[u].source = importFrom)
    IN IF i # 0
       THEN IF name \in Range(t.heap[t.body[i]].imported) THEN t
            ELSE [t EXCEPT !.heap[t.body[i]].imported = Append(@, name)]
       ELSE [heap |-> Append(t.heap,
                        Import(importFrom, <<name>>, IF isType THEN "type" ELSE "value")),
             body |-> <<Len(t.heap) + 1>> \o t.body]

\* exports.namedExport: wraps the declaration in an export and appends it
namedExport(t, name, fallback) ==
    [heap |-> Append(t.heap, [Base EXCEPT !.type = "ExportNamedDeclaration",
                                          !.declaration = <<fallback>>]),
     body |-> Append(t.body, Len(t.heap) + 1)]

\* common.hasNode: some node reachable from the Program equals nodeToMatch
ExprNodes(e) ==
    {e} \cup (IF e.type = "CallExpression"
              THEN {Ident(e.name)} \cup {Ident(e.arguments[i]) : i \in 1..Len(e.arguments)}
              ELSE {})

StmtNodes(s) ==
    UNION {(IF d.typed THEN {} ELSE {Ident(d.id)})
             \cup (IF d.init = <<>> THEN {} ELSE ExprNodes(d.init[1]))
           : d \in Range(s.declarations)}
    \cup (IF s.type \in {"FunctionDeclaration", "ClassDeclaration"} THEN {Ident(s.id)} ELSE {})
    \cup UNION {{Ident(sp.local), Ident(sp.exported)} : sp \in Range(s.specifiers)}
    \cup {Ident(n) : n \in Range(s.imported)}

Reachable(t) ==
    Range(t.body) \cup UNION {Range(t.heap[u].declaration) : u \in Range(t.body)}

hasNode(t, nodeToMatch) == \E u \in Reachable(t) : nodeToMatch \in StmtNodes(t.heap[u])

\* ------------------------------------------------------ construct locator
NoFinding ==
    [isSpecifier |-> FALSE, handleName |-> "handle", exportDecl |-> 0,
     originalHandleDecl |-> 0]

\* The ExportNamedDeclaration visitor, applied to the export object e with
\* the closure variables in acc.
VisitExport(t, e, acc) ==
    LET node == t.heap[e]
        si == FirstIdx(node.specifiers, LAMBDA s : s.exported = "handle")
        handleName == IF si # 0 THEN node.specifiers[si].local ELSE acc.handleName
        fi == FirstIdx(t.body, LAMBDA u : isFunctionDeclaration(t.heap[u], handleName))
        vi == FirstIdx(t.body, LAMBDA u : isVariableDeclaration(t.heap[u], handleName))
        fromSpecifier == IF si = 0 THEN 0
                         ELSE IF fi # 0 THEN t.body[fi]
                         ELSE IF vi # 0 THEN t.body[vi] ELSE 0
        maybeHandleDecl == IF fromSpecifier # 0 THEN fromSpecifier
                           ELSE IF node.declaration # <<>> THEN node.declaration[1] ELSE 0
        located == /\ maybeHandleDecl # 0
                   /\ \/ isVariableDeclaration(t.heap[maybeHandleDecl], handleName)
                      \/ isFunctionDeclaration(t.heap[maybeHandleDecl], handleName)
    IN [isSpecifier |-> acc.isSpecifier \/ si # 0,
        handleName |-> handleName,
        exportDecl |-> IF located THEN e ELSE acc.exportDecl,
        originalHandleDecl |-> IF located THEN maybeHandleDecl ELSE acc.originalHandleDecl]

RECURSIVE LocateFrom(_, _, _)
LocateFrom(t, i, acc) ==
    IF i > Len(t.body) THEN acc
    ELSE LocateFrom(t, i + 1,
             IF t.heap[t.body[i]].type = "ExportNamedDeclaration"
             THEN VisitExport(t, t.body[i], acc) ELSE acc)

Locate(t) == LocateFrom(t, 1, NoFinding)

\* ast.body.filter((n) => n !== a && n !== b && n !== c)
filterOut(t, drop) == [t EXCEPT !.body = SelectSeq(@, LAMBDA u : u \notin drop)]

\* ------------------------------------------------------------ create path
\* variant: the new unit's declaration is built but never pushed
CreateHandle_NoPush(t, loc, typescript, newHandleName, newHandle) ==
    LET nd0 == declaration(newHandleName, newHandle)
        newDecl == IF typescript THEN typeAnnotateDeclarator(nd0) ELSE nd0
        t1 == alloc(t, newDecl)
        hd0 == declaration(loc.handleName, expressionFromString(newHandleName))
        handleDecl == IF typescript THEN typeAnnotateDeclarator(hd0) ELSE hd0
        t2 == alloc(t1, handleDecl)
    IN namedExport(t2, loc.handleName, Len(t2.heap))

CreateHandle(t, loc, typescript, newHandleName, newHandle) ==
    LET nd0 == declaration(newHandleName, newHandle)
        newDecl == IF typescript THEN typeAnnotateDeclarator(nd0) ELSE nd0
        t1 == push(alloc(t, newDecl), <<Len(t.heap) + 1>>)
        hd0 == declaration(loc.handleName, expressionFromString(newHandleName))
        handleDecl == IF typescript THEN typeAnnotateDeclarator(hd0) ELSE hd0
        t2 == alloc(t1, handleDecl)
    IN namedExport(t2, loc.handleName, Len(t2.heap))

\* -------------------------------------------------------- sequence branch
\* The declarator of originalHandleDecl that is using a sequence (0: none).
SequenceDeclarator(t, loc) ==
    IF t.heap[loc.originalHandleDecl].type = "VariableDeclaration"
    THEN FirstIdx(t.heap[loc.originalHandleDecl].declarations,
                  LAMBDA d : usingSequence(d, loc.handleName))
    ELSE 0

\* what the sequence branch pushes after removing the declarations
SequenceReappend(isSpecifier, newDecl, orig, exp) ==
    IF isSpecifier THEN <<newDecl, orig, exp>> ELSE <<newDecl, exp>>

AppendToSequence(t, loc, di, newDecl, newHandleName) ==
    LET orig == loc.originalHandleDecl
        args == t.heap[orig].declarations[di].init[1].arguments
        hasNewArg == newHandleName \in Range(args)
        t1 == IF hasNewArg THEN t
              ELSE [t EXCEPT !.heap[orig].declarations[di].init[1].arguments =
                                 Append(@, newHandleName)]
        t2 == filterOut(t1, {orig, loc.exportDecl, newDecl})
    IN push(t2, SequenceReappend(loc.isSpecifier, newDecl, orig, loc.exportDecl))

\* --------------------------------------- rename and introduce a sequence
NEW_HANDLE_NAME == "originalHandle"

\* variant: the specifier export is not appended again
SpecifierReappend_NoExport(orig, newDecl, newHandleDecl, exp) ==
    <<orig, newDecl, newHandleDecl>>

\* ast.body.push(originalHandleDecl, newDecl, newHandleDecl, exportDecl)
SpecifierReappend(orig, newDecl, newHandleDecl, exp) ==
    <<orig, newDecl, newHandleDecl, exp>>

\* variant: the new unit's declaration is not appended
RenamedReappend_NoUnit(decl, newDecl) == <<decl>>

\* ast.body.push(exportDecl.declaration, newDecl)
RenamedReappend(decl, newDecl) == <<decl, newDecl>>

\* handle.init?.type !== 'Identifier'
RenameNeeded(declarator) ==
    \/ declarator.init = <<>>
    \/ declarator.init[1].type # "Identifier"

PromoteToSequence(t, loc, typescript, newDecl, newHandleName) ==
    LET orig == loc.originalHandleDecl
        exp == loc.exportDecl
        handleName == loc.handleName
        sequenceCall == callByIdentifier("sequence", <<NEW_HANDLE_NAME, newHandleName>>)
        newHandleDecl == Len(t.heap) + 1
        t1 == alloc(t, declaration(handleName, sequenceCall))
        t2 == addNamed(t1, "@sveltejs/kit/hooks", "sequence", FALSE)
        di == IF isVariableDeclaration(t2.heap[orig], handleName)
              THEN getVariableDeclarator(t2.heap[orig], handleName) ELSE 0
        renameVar == di # 0 /\ RenameNeeded(t2.heap[orig].declarations[di])
        t3 == IF renameVar
              THEN [t2 EXCEPT !.heap[orig].declarations[di].id = NEW_HANDLE_NAME]
              ELSE t2
        renameFunc == isFunctionDeclaration(t3.heap[orig], handleName)
        t4 == IF renameFunc THEN [t3 EXCEPT !.heap[orig].id = NEW_HANDLE_NAME] ELSE t3
        renameRequired == renameVar \/ renameFunc
        t5 == filterOut(t4, {orig, exp, newDecl})
        t6 == IF loc.isSpecifier
              THEN push(t5, SpecifierReappend(orig, newDecl, newHandleDecl, exp)) ELSE t5
        inline == t6.heap[exp].declaration
    IN IF inline # <<>> /\ renameRequired
       THEN namedExport(push(t6, RenamedReappend(inline[1], newDecl)),
                        handleName, newHandleDecl)
       ELSE IF inline # <<>> /\ isVariableDeclaration(t6.heap[orig], handleName)
       THEN LET vd == getVariableDeclarator(t6.heap[orig], handleName)
                passCall == callByIdentifier("sequence",
                              <<t6.heap[orig].declarations[vd].init[1].name, newHandleName>>)
                pd0 == declaration(handleName, passCall)
                passDecl == IF typescript THEN typeAnnotateDeclarator(pd0) ELSE pd0
                t7 == push(alloc(t6, passDecl), <<newDecl>>)
            IN namedExport(t7, handleName, Len(t7.heap))
       ELSE t6

\* ---------------------------------------------------------- addHooksHandle
MergeHandle(t, loc, typescript, newHandleName, newHandle) ==
    LET nd0 == declaration(newHandleName, newHandle)
        newDecl == Len(t.heap) + 1
        t1 == alloc(t, IF typescript THEN typeAnnotateDeclarator(nd0) ELSE nd0)
        di == SequenceDeclarator(t1, loc)
        t2 == IF di # 0 THEN AppendToSequence(t1, loc, di, newDecl, newHandleName) ELSE t1
    IN PromoteToSequence(t2, loc, typescript, newDecl, newHandleName)

addHooksHandle(t, typescript, newHandleName, handleContent) ==
    LET t1 == IF typescript THEN addNamed(t, "@sveltejs/kit", "Handle", TRUE) ELSE t
        loc == Locate(t1)
        newHandle == expressionFromString(handleContent)
    IN IF hasNode(t1, newHandle) THEN t1
       ELSE IF loc.originalHandleDecl = 0 \/ loc.exportDecl = 0
       THEN CreateHandle(t1, loc, typescript, newHandleName, newHandle)
       ELSE MergeHandle(t1, loc, typescript, newHandleName, newHandle)

\* ------------------------------------------------------- app.d.ts trees
GBase ==
    [type |-> "", id |-> "", global |-> FALSE, declare |-> FALSE,
     bodyType |-> "", kids |-> <<>>]
GModule(id, global, declare, bodyType, kids) ==
    [GBase EXCEPT !.type = "TSModuleDeclaration", !.id = id, !.global = global,
                  !.declare = declare, !.bodyType = bodyType, !.kids = kids]
DeclareGlobal(kids) == GModule("global", TRUE, TRUE, "TSModuleBlock", kids)
Namespace(id, kids) == GModule(id, FALSE, FALSE, "TSModuleBlock", kids)
Interface(id) == [GBase EXCEPT !.type = "TSInterfaceDeclaration", !.id = id]

\* parseScript for app.d.ts: children are parsed before their parent object.
RECURSIVE GParseList(_, _)
GParseList(stmts, heap) ==
    IF stmts = <<>> THEN [heap |-> heap, ids |-> <<>>]
    ELSE LET k == GParseList(Head(stmts).kids, heap)
             h1 == Append(k.heap, [Head(stmts) EXCEPT !.kids = k.ids])
             r == GParseList(Tail(stmts), h1)
         IN [heap |-> r.heap, ids |-> <<Len(h1)>> \o r.ids]

parseDts(stmts) ==
    LET r == GParseList(stmts, <<>>) IN [heap |-> r.heap, body |-> r.ids]

\* Walker.walk(globalDecl, ...): the nodes in visiting order.  The module
\* visitor calls next(), the interface visitor does not.
RECURSIVE WalkOrder(_, _)
RECURSIVE WalkList(_, _)
WalkOrder(heap, u) ==
    IF heap[u].type = "TSModuleDeclaration" THEN <<u>> \o WalkList(heap, heap[u].kids)
    ELSE <<u>>
WalkList(heap, us) ==
    IF us = <<>> THEN <<>> ELSE WalkOrder(heap, Head(us)) \o WalkList(heap, Tail(us))

\* let globalDecl = ast.body.filter(...).find((m) => m.global && m.declare)
FindGlobalDecl(t) ==
    LET i == FirstIdx(t.body, LAMBDA u : /\ t.heap[u].type = "TSModuleDeclaration"
                                         /\ t.heap[u].global /\ t.heap[u].declare)
    IN IF i = 0 THEN 0 ELSE t.body[i]

\* the last visited module named App (0: none)
FindApp(t, globalDecl) ==
    LET w == WalkOrder(t.heap, globalDecl)
        i == LastIdx(w, LAMBDA u : t.heap[u].type = "TSModuleDeclaration"
                                   /\ t.heap[u].id = "App")
    IN IF i = 0 THEN 0 ELSE w[i]

\* variant: only the direct members of the global block are searched
FindInterface_TopOnly(t, globalDecl, name) ==
    LET w == t.heap[globalDecl].kids
        i == LastIdx(w, LAMBDA u : t.heap[u].type = "TSInterfaceDeclaration"
                                   /\ t.heap[u].id = name)
    IN IF i = 0 THEN 0 ELSE w[i]

\* the last visited interface named name (0: none)
FindInterface(t, globalDecl, name) ==
    LET w == WalkOrder(t.heap, globalDecl)
        i == LastIdx(w, LAMBDA u : t.heap[u].type = "TSInterfaceDeclaration"
                                   /\ t.heap[u].id = name)
    IN IF i = 0 THEN 0 ELSE w[i]

\* ------------------------------------------------- addGlobalAppInterface
Outcome(t, didThrow, node) == [tree |-> t, threw |-> didThrow, node |-> node]

addGlobalAppInterface(t, name) ==
    LET g0 == FindGlobalDecl(t)
        globalDecl == IF g0 # 0 THEN g0 ELSE Len(t.heap) + 1
        t1 == IF g0 # 0 THEN t
              ELSE [heap |-> Append(t.heap, DeclareGlobal(<<>>)),
                    body |-> Append(t.body, Len(t.heap) + 1)]
    IN IF t1.heap[globalDecl].bodyType # "TSModuleBlock" THEN Outcome(t1, TRUE, 0)
       ELSE
       LET a0 == FindApp(t1, globalDecl)
           i0 == FindInterface(t1, globalDecl, name)
           app == IF a0 # 0 THEN a0 ELSE Len(t1.heap) + 1
           t2 == IF a0 # 0 THEN t1
                 ELSE [heap |-> Append([t1.heap EXCEPT ![globalDecl].kids =
                                                           Append(@, Len(t1.heap) + 1)],
                                       Namespace("App", <<>>)),
                       body |-> t1.body]
       IN IF t2.heap[app].bodyType # "TSModuleBlock" THEN Outcome(t2, TRUE, 0)
          ELSE IF i0 # 0 THEN Outcome(t2, FALSE, i0)
          ELSE Outcome(
                 [heap |-> Append([t2.heap EXCEPT ![app].kids = Append(@, Len(t2.heap) + 1)],
                                  Interface(name)),
                  body |-> t2.body],
                 FALSE, Len(t2.heap) + 1)

\* ------------------------------------------------------------ start trees
FnH == Arrow("fnH")
ImportAB == Import("./handles", <<"a", "b">>, "value")
ImportSequence == Import("@sveltejs/kit/hooks", <<"sequence">>, "value")
ExportHandle == ExportSpec(<<Specifier("handle", "handle")>>)

StartTrees ==
    { <<>>,
      <<Const("x", Arrow("fnX"))>>,
      <<ExportDecl(Const("handle", FnH))>>,
      <<ExportDecl(FuncDecl("handle"))>>,
      <<Import("./other", <<"otherHandle">>, "value"),
        ExportDecl(Const("handle", Ident("otherHandle")))>>,
      <<ImportSequence, ImportAB,
        ExportDecl(Const("handle", Call("sequence", <<"a", "b">>)))>>,
      <<Const("handle", FnH), ExportHandle>>,
      <<FuncDecl("handle"), ExportHandle>>,
      <<FuncDecl("foo"), ExportSpec(<<Specifier("foo", "handle")>>)>>,
      <<Import("./other", <<"otherHandle">>, "value"),
        Const("handle", Ident("otherHandle")), ExportHandle>>,
      <<ImportSequence, ImportAB,
        Const("handle", Call("sequence", <<"a", "b">>)), ExportHandle>>,
      <<ImportSequence, ImportAB,
        Const("foo", Call("sequence", <<"a", "b">>)),
        ExportSpec(<<Specifier("foo", "handle")>>)>>,
      <<ExportDecl(ClassDecl("handle"))>>,
      <<Import("./impl", <<"handle">>, "value"), ExportHandle>>,
      <<Const("c", Arrow("fnC"))>>,
      <<Const("c", Arrow("fnC")), ExportDecl(Const("handle", Ident("c")))>>,
      <<ExportDecl(VarDecl(<<Declarator("other", FALSE, <<Arrow("fnX")>>),
                             Declarator("handle", FALSE, <<FnH>>)>>))>>,
      <<Import("@sveltejs/kit", <<"Handle">>, "type"),
        ExportDecl(VarDecl(<<Declarator("handle", TRUE, <<FnH>>)>>))>>,
      <<ExportSpec(<<Specifier("x", "handle")>>), ExportDecl(Const("x", Arrow("fnX")))>> }

HandleNames == {"c", "d"}
HandleContents == {"fnC", "fnD", "otherHandle"}

Fragment(ts, n, c) == [typescript |-> ts, newHandleName |-> n, handleContent |-> c]

InterfaceNames == {"Error", "Locals", "PageData", "PageState", "Platform"}

GStartTrees ==
    { <<>>,
      <<DeclareGlobal(<<>>)>>,
      <<DeclareGlobal(<<Namespace("App", <<>>)>>)>>,
      <<DeclareGlobal(<<Namespace("App", <<Interface("Locals")>>)>>)>>,
      <<DeclareGlobal(<<Interface("Locals"), Namespace("App", <<>>)>>)>>,
      <<DeclareGlobal(<<Namespace("Other", <<Interface("Error")>>),
                        Namespace("App", <<Interface("Locals")>>)>>)>>,
      <<GModule("x", FALSE, TRUE, "TSModuleBlock",
                <<Namespace("App", <<Interface("Locals")>>)>>)>>,
      <<GModule("global", TRUE, TRUE, "", <<>>)>>,
      <<DeclareGlobal(<<GModule("App", FALSE, FALSE, "TSModuleDeclaration",
                                <<Namespace("Foo", <<>>)>>)>>)>>,
      <<DeclareGlobal(<<Namespace("Other", <<Namespace("App", <<>>)>>)>>)>>,
      <<DeclareGlobal(<<Namespace("App", <<Interface("Locals")>>),
                        Namespace("App", <<>>)>>)>>,
      <<DeclareGlobal(<<Namespace("App", <<Interface("Locals"), Interface("Locals")>>)>>)>>,
      <<DeclareGlobal(<<Namespace("App", <<>>)>>), DeclareGlobal(<<>>)>>,
      <<Interface("Locals"), DeclareGlobal(<<>>)>> }

\* ---------------------------------------------------------- state machine
EmptyTree == [heap |-> <<>>, body |-> <<>>]

Init ==
    /\ \E T \in StartTrees : ast = parseScript(T)
    /\ start = ast
    /\ pre = ast
    /\ units = <<>>
    /\ threw = FALSE
    /\ gast = EmptyTree
    /\ gstart = EmptyTree
    /\ rets = <<>>

CallAddHooksHandle(ts, n, c) ==
    /\ Len(units) < MaxCalls
    /\ ast' = addHooksHandle(ast, ts, n, c)
    /\ pre' = ast
    /\ units' = Append(units, Fragment(ts, n, c))
    /\ threw' = FALSE
    /\ UNCHANGED <<start, gast, gstart, rets>>

Next ==
    \E ts \in BOOLEAN, n \in HandleNames, c \in HandleContents :
        CallAddHooksHandle(ts, n, c)

Spec == Init /\ [][Next]_vars

InitGlobal ==
    /\ \E T \in GStartTrees : gast = parseDts(T)
    /\ gstart = gast
    /\ rets = <<>>
    /\ threw = FALSE
    /\ ast = EmptyTree
    /\ start = EmptyTree
    /\ pre = EmptyTree
    /\ units = <<>>

CallAddGlobalAppInterface(name) ==
    /\ Len(rets) < MaxGlobalCalls
    /\ LET r == addGlobalAppInterface(gast, name)
       IN /\ gast' = r.tree
          /\ threw' = r.threw
          /\ rets' = Append(rets, [name |-> name, threw |-> r.threw, node |-> r.node])
    /\ UNCHANGED <<ast, start, pre, units, gstart>>

NextGlobal == \E name \in InterfaceNames : CallAddGlobalAppInterface(name)

SpecGlobal == InitGlobal /\ [][NextGlobal]_vars

\* ----------------------------------------------- observations on a tree
Last(sq) == sq[Len(sq)]
LastUnit == Last(units)
LastExpr == expressionFromString(LastUnit.handleContent)

\* the declarators and declared names of a rendered statement, looking into
\* an inline export
DeclStmts(s) == IF s.type = "ExportNamedDeclaration" THEN Range(s.declaration) ELSE {s}

\* occurrences <<statement position, kind, position>> exporting `handle`
Exports(b) == {i \in 1..Len(b) : b[i].type = "ExportNamedDeclaration"}

HandleExports(b) ==
    UNION {{<<i, "specifier", j>> : j \in {k \in 1..Len(b[i].specifiers) :
                                            b[i].specifiers[k].exported = "handle"}}
           : i \in Exports(b)}
    \cup
    UNION {UNION {{<<i, "declarator", j>> : j \in {k \in 1..Len(d.declarations) :
                                                   d.declarations[k].id = "handle"}}
                  : d \in Range(b[i].declaration)}
           : i \in Exports(b)}
    \cup
    {<<i, "named", 1>> : i \in {k \in Exports(b) :
        \E d \in Range(b[k].declaration) :
            d.type \in {"FunctionDeclaration", "ClassDeclaration"} /\ d.id = "handle"}}

\* occurrences <<statement position, declarator position>> of a top-level
\* binding of name n (variables, functions and classes, exported inline or not)
Bindings(b, n) ==
    UNION {UNION {{<<i, j>> : j \in {k \in 1..Len(s.declarations) :
                                       s.declarations[k].id = n}}
                  \cup (IF s.type \in {"FunctionDeclaration", "ClassDeclaration"} /\ s.id = n
                        THEN {<<i, 1>>} ELSE {})
                  : s \in DeclStmts(b[i])}
           : i \in 1..Len(b)}

BoundNames(b) ==
    UNION {({d.id : d \in Range(s.declarations)}
            \cup (IF s.type \in {"FunctionDeclaration", "ClassDeclaration"}
                  THEN {s.id} ELSE {}))
           : s \in UNION {DeclStmts(b[i]) : i \in 1..Len(b)}}

\* the local names under which `handle` is exported through a specifier
HandleLocals(b) ==
    {sp.local : sp \in {q \in UNION {Range(b[i].specifiers) : i \in 1..Len(b)} :
                          q.exported = "handle"}}

\* the initializers of the variables exported as `handle`
HandleInits(b) ==
    {d.init : d \in
        {q \in UNION {Range(s.declarations) :
                      s \in UNION {Range(b[i].declaration) : i \in 1..Len(b)}} :
            q.id = "handle"}
        \cup
        {q \in UNION {Range(b[i].declarations) : i \in 1..Len(b)} :
            q.id \in HandleLocals(b)}}

SequenceCalls(b) ==
    {d.init[1] : d \in {q \in UNION {Range(s.declarations) :
                             s \in UNION {DeclStmts(b[i]) : i \in 1..Len(b)}} :
                          q.init # <<>> /\ q.init[1].type = "CallExpression"
                          /\ q.init[1].name = "sequence"}}

SequenceImports(b) ==
    {i \in 1..Len(b) : b[i].type = "ImportDeclaration" /\ "sequence" \in Range(b[i].imported)}

NonImports(b) == SelectSeq(b, LAMBDA s : s.type # "ImportDeclaration")

NewUnitDecl(F) ==
    VarDecl(<<Declarator(F.newHandleName, F.typescript,
                         <<expressionFromString(F.handleContent)>>)>>)

\* the latest call found the new unit's expression nowhere in the tree
Introduced == units # <<>> /\ ~hasNode(pre, LastExpr)

\* ------------------------------------------------------------------ C1
\* C1: addHooksHandle is idempotent: calling it a second time with the same
\* fragment on the tree produced by the first call leaves the top-level body
\* and every nested node unchanged.
C1_Idempotent ==
    units # <<>> =>
        Render(addHooksHandle(ast, LastUnit.typescript, LastUnit.newHandleName,
                              LastUnit.handleContent)) = Render(ast)

\* the first call rewrote an existing handle
C1_Witness ==
    /\ Introduced
    /\ Locate(pre).originalHandleDecl # 0
    /\ NonImports(Render(ast)) # NonImports(Render(pre))

\* ------------------------------------------------------------------ C6
\* C6: on a tree with no export of `handle` that does not contain the new
\* unit's expression, addHooksHandle appends the declaration of the new unit
\* followed by `export const handle = c;`, and introduces no sequence call
\* and no sequence import.
C6_FreshCreation ==
    (Introduced /\ HandleExports(Render(pre)) = {}) =>
        LET b == Render(ast)
            F == LastUnit
        IN /\ NonImports(b) =
                NonImports(Render(pre)) \o
                <<NewUnitDecl(F),
                  ExportDecl(VarDecl(<<Declarator("handle", F.typescript,
                                                  <<Ident(F.newHandleName)>>)>>))>>
           /\ b[Len(b) - 1] = NewUnitDecl(F)
           /\ SequenceCalls(b) = SequenceCalls(Render(pre))
           /\ Cardinality(SequenceImports(b)) = Cardinality(SequenceImports(Render(pre)))

\* the empty program received its first unit
C6_Witness ==
    /\ Introduced
    /\ Len(units) = 1
    /\ start.body = <<>>
    /\ Len(ast.body) >= 2

\* ------------------------------------------------------------------ C2
\* C2: if the binding exported as `handle` is initialised by sequence(a, b)
\* and the call introduces a new unit c, then afterwards the binding exported
\* as `handle` is initialised by sequence(a, b, c): appended once, nothing
\* reordered, not renamed, not wrapped in a further sequence.
C2_OrderPreserved ==
    (/\ Introduced
     /\ HandleInits(Render(pre)) = {<<Call("sequence", <<"a", "b">>)>>}
     /\ LastUnit.newHandleName \notin {"a", "b"}) =>
        HandleInits(Render(ast)) =
            {<<Call("sequence", <<"a", "b", LastUnit.newHandleName>>)>>}

\* ------------------------------------------------------------------ C3
\* C3: after addHooksHandle returns, the tree contains exactly one export of
\* the public name `handle`, whatever the tree held before.
C3_SingleExport ==
    units # <<>> => Cardinality(HandleExports(Render(ast))) = 1

\* ------------------------------------------------------------------ C4
\* C4: when the existing `handle` is a variable whose initializer is only an
\* identifier reference, exported inline or through a specifier, merging a
\* new unit c renames no binding and leaves `handle` defined exactly once as
\* sequence(otherHandle, c).
PassThroughOf(b) ==
    {o \in BoundNames(b) \cup UNION {Range(b[i].imported) : i \in 1..Len(b)} :
        /\ Cardinality(HandleExports(b)) = 1
        /\ HandleInits(b) = {<<Ident(o)>>}
        /\ HandleLocals(b) \subseteq {"handle"}}

C4_PassThrough ==
    \A o \in PassThroughOf(Render(pre)) :
        Introduced =>
            /\ BoundNames(Render(pre)) \subseteq BoundNames(Render(ast))
            /\ Cardinality(Bindings(Render(ast), "handle")) = 1
            /\ HandleInits(Render(ast)) =
                   {<<Call("sequence", <<o, LastUnit.newHandleName>>)>>}

\* ------------------------------------------------------------------ C5
\* C5 as stated: given function foo exported as `export { foo as handle }`
\* and a new unit c, the result renames foo to originalHandle, declares c and
\* exports handle as the inline declaration
\* `export const handle = sequence(originalHandle, c);`.
AliasedFunction == <<FuncDecl("foo"), ExportSpec(<<Specifier("foo", "handle")>>)>>

C5_InlineExport ==
    (Introduced /\ NonImports(Render(pre)) = AliasedFunction) =>
        LET b == Render(ast)
            c == LastUnit.newHandleName
        IN /\ Bindings(b, "originalHandle") # {}
           /\ Bindings(b, "foo") = {}
           /\ Bindings(b, c) # {}
           /\ \E i \in 1..Len(b) :
                 b[i] = ExportDecl(Const("handle", Call("sequence", <<"originalHandle", c>>)))

\* C5 (amended): given function foo exported as `export { foo as handle }`
\* and a new unit c, the result is, in this order, the function renamed to
\* originalHandle, the declaration of c, `const foo = sequence(originalHandle,
\* c);` and the retained specifier export `export { foo as handle }`.
C5_SpecifierKept ==
    (Introduced /\ NonImports(Render(pre)) = AliasedFunction) =>
        NonImports(Render(ast)) =
            <<FuncDecl("originalHandle"),
              NewUnitDecl(LastUnit),
              Const("foo", Call("sequence", <<"originalHandle", LastUnit.newHandleName>>)),
              ExportSpec(<<Specifier("foo", "handle")>>)>>

\* the aliased function received its first unit
C5_Witness ==
    /\ Introduced
    /\ Len(units) = 1
    /\ NonImports(Render(pre)) = AliasedFunction
    /\ Bindings(Render(ast), "originalHandle") # {}

\* ------------------------------------------------------------------ C9
\* C9: when the tree exports `handle` through an export whose body is neither
\* a specifier resolving to a top-level variable or function declaration nor
\* an inline variable or function declaration, addHooksHandle signals an
\* error and leaves the top-level body unchanged.
WellFormedExport(b, x) ==
    \/ /\ x[2] = "specifier"
       /\ \E i \in 1..Len(b) :
             /\ b[i].type \in {"VariableDeclaration", "FunctionDeclaration"}
             /\ <<i, 1>> \in Bindings(b, b[x[1]].specifiers[x[3]].local)
                \/ <<i, 2>> \in Bindings(b, b[x[1]].specifiers[x[3]].local)
    \/ x[2] = "declarator"
    \/ /\ x[2] = "named"
       /\ b[x[1]].declaration[1].type = "FunctionDeclaration"

Malformed(b) ==
    /\ HandleExports(b) # {}
    /\ \A x \in HandleExports(b) : ~WellFormedExport(b, x)

C9_MalformedRejected ==
    (units # <<>> /\ Malformed(Render(pre))) =>
        threw /\ Render(ast) = Render(pre)

\* ----------------------------------------------------------------- C10
\* C10: after any sequence of calls introducing pairwise distinct units on a
\* tree that starts with one well-formed `handle` export and unique top-level
\* binding names, no two top-level declarations bind the same name and no
\* declaration's initializer references the name it is binding.
UniqueBindings(b) == \A n \in BoundNames(b) : Cardinality(Bindings(b, n)) = 1

SelfReferences(b) ==
    {d \in UNION {Range(s.declarations) : s \in UNION {DeclStmts(b[i]) : i \in 1..Len(b)}} :
        d.init # <<>> /\ Ident(d.id) \in ExprNodes(d.init[1])}

WellFormedStart(b) ==
    /\ Cardinality(HandleExports(b)) = 1
    /\ ~Malformed(b)
    /\ UniqueBindings(b)

DistinctUnits ==
    /\ \A i, j \in 1..Len(units) :
          i # j => /\ units[i].newHandleName # units[j].newHandleName
                   /\ units[i].handleContent # units[j].handleContent
    /\ \A i \in 1..Len(units) :
          /\ ~hasNode(start, expressionFromString(units[i].handleContent))
          /\ units[i].newHandleName \notin BoundNames(Render(start))

C10_UniqueBindings ==
    (WellFormedStart(Render(start)) /\ DistinctUnits) =>
        /\ UniqueBindings(Render(ast))
        /\ SelfReferences(Render(ast)) = {}

\* ------------------------------------------- observations on app.d.ts
GlobalBlocks(t) ==
    {i \in 1..Len(t.body) : /\ t.heap[t.body[i]].type = "TSModuleDeclaration"
                            /\ t.heap[t.body[i]].global /\ t.heap[t.body[i]].declare}

\* the objects below the `declare global` blocks
UnderGlobal(t) == UNION {Range(WalkOrder(t.heap, t.body[i])) : i \in GlobalBlocks(t)}

AppNamespaces(t) ==
    {u \in UnderGlobal(t) : t.heap[u].type = "TSModuleDeclaration" /\ t.heap[u].id = "App"}

Interfaces(t, name) ==
    {u \in UnderGlobal(t) : t.heap[u].type = "TSInterfaceDeclaration" /\ t.heap[u].id = name}

AmbientShape(t) ==
    /\ Cardinality(GlobalBlocks(t)) <= 1
    /\ Cardinality(AppNamespaces(t)) <= 1
    /\ \A name \in InterfaceNames : Cardinality(Interfaces(t, name)) <= 1

Returned == {i \in 1..Len(rets) : ~rets[i].threw}

\* ------------------------------------------------------------------ C7
\* C7: starting from a tree with at most one `declare global` block, at most
\* one App namespace in it and at most one interface per name, after any
\* sequence of addGlobalAppInterface calls the tree still has at most one
\* `declare global` block and one App namespace, exactly one interface for
\* each name a call returned for, and every call for a name returns the same
\* node instance as the first call for that name.
C7_AmbientIdempotent ==
    AmbientShape(gstart) =>
        /\ AmbientShape(gast)
        /\ \A i \in Returned :
              /\ Cardinality(GlobalBlocks(gast)) = 1
              /\ Cardinality(AppNamespaces(gast)) = 1
              /\ Interfaces(gast, rets[i].name) = {rets[i].node}
              /\ \A j \in Returned : rets[j].name = rets[i].name => rets[j].node = rets[i].node

\* the same name was requested twice on a tree that lacked the interface
C7_Witness ==
    /\ AmbientShape(gstart)
    /\ Len(rets) = 2
    /\ Returned = {1, 2}
    /\ rets[1].name = rets[2].name
    /\ Interfaces(gstart, rets[1].name) = {}

\* ------------------------------------------------------------------ C8
\* C8: the node returned by addGlobalAppInterface is always a member of the
\* body of the App namespace block inside the `declare global` block.
C8_ReturnedInsideApp ==
    \A i \in Returned :
        \E a \in AppNamespaces(gast) :
            /\ gast.heap[a].bodyType = "TSModuleBlock"
            /\ rets[i].node \in Range(gast.heap[a].kids)

====
